---- MODULE Spec2Model ----
(***************************************************************************)
(* Trac Oracle Aggregator: reputation-based weighted consensus             *)
(* (src/consensus.js).                                                     *)
(*                                                                         *)
(* Numbers.  JavaScript numbers are modelled as exact rationals: a         *)
(* rational is a pair <<n, d>> with d > 0.  Math.sqrt of the average       *)
(* squared difference is irrational in general, so the standard deviation  *)
(* is carried as its square and every comparison against it is made on     *)
(* squares (both sides are non-negative).  Balances are drawn from perfect *)
(* squares and from values below the stake threshold, so that the weight   *)
(* sqrt(balance) of every response that is kept is an exact integer.       *)
(***************************************************************************)
EXTENDS Integers, Sequences, FiniteSets, TLC

VARIABLES
    reputation,            \* table `reputation`: peerId -> [offenses, blacklisted]
    responses,             \* the array handed to processOracleConsensus
    pc,                    \* "collecting" (caller builds the array) / "returned"
    pre,                   \* the table when the last round was entered
    validResponses,        \* Stage A output of the last round
    qualifiedForConsensus, \* Stage B output of the last round
    slashed,               \* peerIds passed to recordSlashingOffense, in order
    result,                \* what the last round returned or threw
    proc,                  \* concurrent workers sharing the database file
    done,                  \* completed recordSlashingOffense calls per peer
    wmIn,                  \* input of calculateWeightedMedian (function check)
    wmOut,                 \* its output
    history                \* one record per round of a run of repeated rounds

roundVars == <<responses, pc, pre, validResponses, qualifiedForConsensus, slashed, result>>
concVars == <<proc, done>>
wmVars == <<wmIn, wmOut>>
vars == <<reputation, roundVars, concVars, wmVars, history>>

(***************************************************************************)
(* Program constants                                                       *)
(***************************************************************************)
MINIMUM_STAKE_THRESHOLD == 100
SLASHING_THRESHOLD == 3

(***************************************************************************)
(* Bounds of the model                                                     *)
(***************************************************************************)
MaxResponses == 4
Peers == {"p1", "p2"}
Prices == {1, 9}
Balances == {50, 100}
Submissions == [peerId : Peers, price : Prices, balance : Balances]

\* concurrent workers, and the number of recordSlashingOffense calls they start
Procs == {"w1", "w2"}
MaxCalls == 4

\* runs of repeated rounds: the same submissions handed in round after round
MaxRepeatLen == 5
MaxRounds == 4
RepeatPrices == {1, 2, 5}
RepeatBalances == {100}
RepeatSubmissions == [peerId : Peers, price : RepeatPrices, balance : RepeatBalances]
RepeatInputs == UNION {[1..n -> RepeatSubmissions] : n \in 0..MaxRepeatLen}

\* inputs of the weighted-median function check
MaxWmLen == 4
WmPrices == {1, 2, 3}
WmWeights == {0, 1, 2}
WmResponses == [price : WmPrices, weight : WmWeights]
WmInputs == UNION {[1..n -> WmResponses] : n \in 0..MaxWmLen}

(***************************************************************************)
(* Rationals and small helpers                                             *)
(***************************************************************************)
Abs(x) == IF x < 0 THEN -x ELSE x

RECURSIVE SeqSum(_)
SeqSum(s) == IF s = <<>> THEN 0 ELSE Head(s) + SeqSum(Tail(s))

\* Math.sqrt on the perfect squares the model feeds it
Sqrt(b) == CHOOSE r \in 0..b : r * r <= b /\ (r + 1) * (r + 1) > b

\* [...prices].sort((a, b) => a - b): ascending; equal keys keep input order
\* (Array.prototype.sort is stable).
RECURSIVE InsertPrice(_, _)
InsertPrice(x, s) ==
    IF s = <<>> THEN <<x>>
    ELSE IF x < Head(s) THEN <<x>> \o s
    ELSE <<Head(s)>> \o InsertPrice(x, Tail(s))

RECURSIVE SortPrices(_)
SortPrices(s) ==
    IF s = <<>> THEN <<>>
    ELSE InsertPrice(s[Len(s)], SortPrices(SubSeq(s, 1, Len(s) - 1)))

\* Faulty variant: the responses are sorted by price descending
RECURSIVE InsertResponse_desc(_, _)
InsertResponse_desc(x, s) ==
    IF s = <<>> THEN <<x>>
    ELSE IF x.price > Head(s).price THEN <<x>> \o s
    ELSE <<Head(s)>> \o InsertResponse_desc(x, Tail(s))

\* [...qualifiedResponses].sort((a, b) => a.price - b.price)
RECURSIVE InsertResponse(_, _)
InsertResponse(x, s) ==
    IF s = <<>> THEN <<x>>
    ELSE IF x.price < Head(s).price THEN <<x>> \o s
    ELSE <<Head(s)>> \o InsertResponse(x, Tail(s))

\* Faulty variant: the responses are scanned in input order, unsorted
SortResponses_none(s) == s

RECURSIVE SortResponses(_)
SortResponses(s) ==
    IF s = <<>> THEN <<>>
    ELSE InsertResponse(s[Len(s)], SortResponses(SubSeq(s, 1, Len(s) - 1)))

(***************************************************************************)
(* Reputation store: the prepared statements                               *)
(***************************************************************************)
NoRow == [offenses |-> -1, blacklisted |-> -1]

\* SELECT offenses, blacklisted FROM reputation WHERE peerId = ?
stmtGet(db, peerId) == IF peerId \in DOMAIN db THEN db[peerId] ELSE NoRow

\* INSERT OR IGNORE INTO reputation (peerId, offenses, blacklisted) VALUES (?, 0, 0)
stmtInsert(db, peerId) ==
    IF peerId \in DOMAIN db THEN db
    ELSE [p \in DOMAIN db \cup {peerId} |->
            IF p = peerId THEN [offenses |-> 0, blacklisted |-> 0] ELSE db[p]]

\* UPDATE reputation SET offenses = ?, blacklisted = ? WHERE peerId = ?
stmtUpdate(db, offenses, blacklisted, peerId) ==
    IF peerId \in DOMAIN db
    THEN [db EXCEPT ![peerId] = [offenses |-> offenses, blacklisted |-> blacklisted]]
    ELSE db

\* Faulty variant: the row is written with INSERT OR REPLACE on every lookup
getSlashingRecordDb_replace(db, peerId) ==
    [p \in DOMAIN db \cup {peerId} |->
        IF p = peerId THEN [offenses |-> 0, blacklisted |-> 0] ELSE db[p]]

\* getSlashingRecord: the table after the call
getSlashingRecordDb(db, peerId) ==
    IF stmtGet(db, peerId) = NoRow THEN stmtInsert(db, peerId) ELSE db

\* getSlashingRecord: the record returned (blacklisted as a boolean)
getSlashingRecord(db, peerId) ==
    LET row == IF stmtGet(db, peerId) = NoRow
               THEN [offenses |-> 0, blacklisted |-> 0]
               ELSE stmtGet(db, peerId)
    IN  [offenses |-> row.offenses, blacklisted |-> (row.blacklisted = 1)]

\* Faulty variant: the threshold test is > instead of >=
bumpRecord_late(record) ==
    LET offenses == record.offenses + 1
    IN  [offenses |-> offenses,
         blacklisted |-> IF offenses > SLASHING_THRESHOLD THEN TRUE
                         ELSE record.blacklisted]

\* the record recordSlashingOffense writes back, from the record it read
bumpRecord(record) ==
    LET offenses == record.offenses + 1
    IN  [offenses |-> offenses,
         blacklisted |-> IF offenses >= SLASHING_THRESHOLD THEN TRUE
                         ELSE record.blacklisted]

\* Faulty variant: the updated record is never written back
recordSlashingOffense_noWrite(db, peerId) == getSlashingRecordDb(db, peerId)

\* recordSlashingOffense run to completion: the table after the call
recordSlashingOffense(db, peerId) ==
    LET record == bumpRecord(getSlashingRecord(db, peerId))
    IN  stmtUpdate(getSlashingRecordDb(db, peerId), record.offenses,
                   IF record.blacklisted THEN 1 ELSE 0, peerId)

(***************************************************************************)
(* Statistics                                                              *)
(***************************************************************************)
computeMedian(prices) ==
    IF Len(prices) = 0 THEN <<0, 1>>
    ELSE LET sortedPrices == SortPrices(prices)
             mid == Len(sortedPrices) \div 2
         IN  IF Len(sortedPrices) % 2 = 0
             THEN <<sortedPrices[mid] + sortedPrices[mid + 1], 2>>
             ELSE <<sortedPrices[mid + 1], 1>>

computeMean(prices) ==
    IF Len(prices) = 0 THEN <<0, 1>>
    ELSE <<SeqSum(prices), Len(prices)>>

\* Faulty variant: the sample variance, dividing by length - 1
computeStandardDeviation_sample(prices, mean) ==
    IF Len(prices) <= 1 THEN <<0, 1>>
    ELSE LET squaredDiffs == [i \in 1..Len(prices) |->
                                (prices[i] * mean[2] - mean[1]) * (prices[i] * mean[2] - mean[1])]
         IN  <<SeqSum(squaredDiffs), mean[2] * mean[2] * (Len(prices) - 1)>>

\* The SQUARE of the standard deviation, as a rational:
\* sum((price - mean)^2) / length, with mean = mean[1] / mean[2].
computeStandardDeviation(prices, mean) ==
    IF Len(prices) = 0 THEN <<0, 1>>
    ELSE LET squaredDiffs == [i \in 1..Len(prices) |->
                                (prices[i] * mean[2] - mean[1]) * (prices[i] * mean[2] - mean[1])]
         IN  <<SeqSum(squaredDiffs), mean[2] * mean[2] * Len(prices)>>

\* Faulty variant: the outlier test is zScore >= 2
zScoreAbove2_orEqual(price, medianPrice, stdDevSq) ==
    LET diffNum == Abs(price * medianPrice[2] - medianPrice[1])
    IN  IF stdDevSq[1] = 0 THEN FALSE
        ELSE diffNum * diffNum * stdDevSq[2]
                >= 4 * stdDevSq[1] * medianPrice[2] * medianPrice[2]

\* zScore > 2, where zScore = stdDev === 0 ? 0 : |price - median| / stdDev
\* Faulty variant: the outlier test is zScore > 1/2
zScoreAbove2_half(price, medianPrice, stdDevSq) ==
    LET diffNum == Abs(price * medianPrice[2] - medianPrice[1])
    IN  /\ stdDevSq[1] > 0
        /\ 4 * diffNum * diffNum * stdDevSq[2]
               > stdDevSq[1] * medianPrice[2] * medianPrice[2]

zScoreAbove2(price, medianPrice, stdDevSq) ==
    LET diffNum == Abs(price * medianPrice[2] - medianPrice[1])
    IN  IF stdDevSq[1] = 0 THEN FALSE
        ELSE diffNum * diffNum * stdDevSq[2]
                > 4 * stdDevSq[1] * medianPrice[2] * medianPrice[2]

\* Faulty variant: the scan stops only when the cumulative weight exceeds the target
RECURSIVE wmScan_strict(_, _, _, _)
wmScan_strict(sortedResponses, i, cumulativeWeight, totalWeight) ==
    IF i > Len(sortedResponses) THEN 0
    ELSE LET c == cumulativeWeight + sortedResponses[i].weight
         IN  IF 2 * c > totalWeight THEN i
             ELSE wmScan_strict(sortedResponses, i + 1, c, totalWeight)

\* the scan loop: index of the first response, in sorted order, at which the
\* cumulative weight reaches targetWeight = totalWeight / 2; 0 if none does
RECURSIVE wmScan(_, _, _, _)
wmScan(sortedResponses, i, cumulativeWeight, totalWeight) ==
    IF i > Len(sortedResponses) THEN 0
    ELSE LET c == cumulativeWeight + sortedResponses[i].weight
         IN  IF 2 * c >= totalWeight THEN i
             ELSE wmScan(sortedResponses, i + 1, c, totalWeight)

\* Faulty variant: a simple (integer) average of the prices
calculateWeightedMedian_average(qualifiedResponses) ==
    IF Len(qualifiedResponses) = 0 THEN 0
    ELSE SeqSum([i \in 1..Len(qualifiedResponses) |-> qualifiedResponses[i].price])
             \div Len(qualifiedResponses)

calculateWeightedMedian(qualifiedResponses) ==
    IF Len(qualifiedResponses) = 0 THEN 0
    ELSE LET sortedResponses == SortResponses(qualifiedResponses)
             totalWeight == SeqSum([i \in 1..Len(sortedResponses) |-> sortedResponses[i].weight])
             hit == wmScan(sortedResponses, 1, 0, totalWeight)
         IN  IF hit # 0 THEN sortedResponses[hit].price
             ELSE sortedResponses[Len(sortedResponses)].price

(***************************************************************************)
(* processOracleConsensus                                                  *)
(***************************************************************************)
\* Faulty variant: Stage A without the blacklist check
RECURSIVE stageA_keepBlacklisted(_, _, _, _)
stageA_keepBlacklisted(db, resps, i, valid) ==
    IF i > Len(resps) THEN [db |-> db, valid |-> valid]
    ELSE LET res == resps[i]
             db1 == getSlashingRecordDb(db, res.peerId)
         IN  IF res.balance < MINIMUM_STAKE_THRESHOLD
             THEN stageA_keepBlacklisted(db1, resps, i + 1, valid)
             ELSE stageA_keepBlacklisted(db1, resps, i + 1,
                         Append(valid, [peerId |-> res.peerId, price |-> res.price,
                                        weight |-> Sqrt(res.balance),
                                        balance |-> res.balance]))

\* Faulty variant: the stake test is balance <= MINIMUM_STAKE_THRESHOLD
RECURSIVE stageA_strictStake(_, _, _, _)
stageA_strictStake(db, resps, i, valid) ==
    IF i > Len(resps) THEN [db |-> db, valid |-> valid]
    ELSE LET res == resps[i]
             slashingRecord == getSlashingRecord(db, res.peerId)
             db1 == getSlashingRecordDb(db, res.peerId)
         IN  IF slashingRecord.blacklisted \/ res.balance <= MINIMUM_STAKE_THRESHOLD
             THEN stageA_strictStake(db1, resps, i + 1, valid)
             ELSE stageA_strictStake(db1, resps, i + 1,
                         Append(valid, [peerId |-> res.peerId, price |-> res.price,
                                        weight |-> Sqrt(res.balance),
                                        balance |-> res.balance]))

\* Faulty variant: a blacklisted peer that submits again is slashed again in Stage A
RECURSIVE stageA_slashBlacklisted(_, _, _, _)
stageA_slashBlacklisted(db, resps, i, valid) ==
    IF i > Len(resps) THEN [db |-> db, valid |-> valid]
    ELSE LET res == resps[i]
             slashingRecord == getSlashingRecord(db, res.peerId)
             db1 == getSlashingRecordDb(db, res.peerId)
         IN  IF slashingRecord.blacklisted
             THEN stageA_slashBlacklisted(recordSlashingOffense(db1, res.peerId),
                                          resps, i + 1, valid)
             ELSE IF res.balance < MINIMUM_STAKE_THRESHOLD
                  THEN stageA_slashBlacklisted(db1, resps, i + 1, valid)
             ELSE stageA_slashBlacklisted(db1, resps, i + 1,
                         Append(valid, [peerId |-> res.peerId, price |-> res.price,
                                        weight |-> Sqrt(res.balance),
                                        balance |-> res.balance]))

\* 1. Sybil Defense & Identity Check: the loop over responses from index i,
\* threading the table (getSlashingRecord may insert a row)
RECURSIVE stageA(_, _, _, _)
stageA(db, resps, i, valid) ==
    IF i > Len(resps) THEN [db |-> db, valid |-> valid]
    ELSE LET res == resps[i]
             slashingRecord == getSlashingRecord(db, res.peerId)
             db1 == getSlashingRecordDb(db, res.peerId)
         IN  IF slashingRecord.blacklisted THEN stageA(db1, resps, i + 1, valid)
             ELSE IF res.balance < MINIMUM_STAKE_THRESHOLD
                  THEN stageA(db1, resps, i + 1, valid)
             ELSE stageA(db1, resps, i + 1,
                         Append(valid, [peerId |-> res.peerId, price |-> res.price,
                                        weight |-> Sqrt(res.balance),
                                        balance |-> res.balance]))

\* 2. Anti-Outlier Filter: the loop over validResponses from index i
RECURSIVE stageB(_, _, _, _, _, _, _)
stageB(db, valid, i, medianPrice, stdDev, qualified, slashedPeers) ==
    IF i > Len(valid)
    THEN [db |-> db, qualified |-> qualified, slashed |-> slashedPeers]
    ELSE LET res == valid[i]
         IN  IF zScoreAbove2(res.price, medianPrice, stdDev)
             THEN stageB(recordSlashingOffense(db, res.peerId), valid, i + 1,
                         medianPrice, stdDev, qualified, Append(slashedPeers, res.peerId))
             ELSE stageB(db, valid, i + 1, medianPrice, stdDev,
                         Append(qualified, res), slashedPeers)

NoResult == [kind |-> "none", finalPrice |-> 0, participants |-> 0, totalWeight |-> 0]

\* Faulty variant: median and standard deviation are taken over every submitted
\* price, the ones rejected in Stage A included
processOracleConsensus_allPrices(db, resps) ==
    LET a == stageA(db, resps, 1, <<>>)
        prices == [i \in 1..Len(resps) |-> resps[i].price]
        medianPrice == computeMedian(prices)
        meanPrice == computeMean(prices)
        stdDev == computeStandardDeviation(prices, meanPrice)
        b == stageB(a.db, a.valid, 1, medianPrice, stdDev, <<>>, <<>>)
    IN  IF Len(a.valid) = 0
        THEN [db |-> a.db, valid |-> a.valid, qualified |-> <<>>, slashed |-> <<>>,
              result |-> [NoResult EXCEPT !.kind = "NoQualifiedResponses"]]
        ELSE IF Len(b.qualified) = 0
        THEN [db |-> b.db, valid |-> a.valid, qualified |-> b.qualified,
              slashed |-> b.slashed,
              result |-> [NoResult EXCEPT !.kind = "NoResponsesPassedOutlierFilter"]]
        ELSE [db |-> b.db, valid |-> a.valid, qualified |-> b.qualified,
              slashed |-> b.slashed,
              result |-> [kind |-> "ok",
                          finalPrice |-> calculateWeightedMedian(b.qualified),
                          participants |-> Len(b.qualified),
                          totalWeight |-> SeqSum([i \in 1..Len(b.qualified) |->
                                                     b.qualified[i].weight])]]

\* the whole call: the table afterwards, the locals, and the value returned
\* or the error thrown
processOracleConsensus(db, resps) ==
    LET a == stageA(db, resps, 1, <<>>)
        prices == [i \in 1..Len(a.valid) |-> a.valid[i].price]
        medianPrice == computeMedian(prices)
        meanPrice == computeMean(prices)
        stdDev == computeStandardDeviation(prices, meanPrice)
        b == stageB(a.db, a.valid, 1, medianPrice, stdDev, <<>>, <<>>)
    IN  IF Len(a.valid) = 0
        THEN [db |-> a.db, valid |-> a.valid, qualified |-> <<>>, slashed |-> <<>>,
              result |-> [NoResult EXCEPT !.kind = "NoQualifiedResponses"]]
        ELSE IF Len(b.qualified) = 0
        THEN [db |-> b.db, valid |-> a.valid, qualified |-> b.qualified,
              slashed |-> b.slashed,
              result |-> [NoResult EXCEPT !.kind = "NoResponsesPassedOutlierFilter"]]
        ELSE [db |-> b.db, valid |-> a.valid, qualified |-> b.qualified,
              slashed |-> b.slashed,
              result |-> [kind |-> "ok",
                          finalPrice |-> calculateWeightedMedian(b.qualified),
                          participants |-> Len(b.qualified),
                          totalWeight |-> SeqSum([i \in 1..Len(b.qualified) |->
                                                     b.qualified[i].weight])]]

(***************************************************************************)
(* Sequential specification: one process, calls run to completion          *)
(***************************************************************************)
EmptyTable == [p \in {} |-> NoRow]
IdleProc == [pc |-> "idle", peerId |-> "none", record |-> NoRow]
WmPending == [done |-> FALSE, price |-> 0]

Init ==
    /\ reputation = EmptyTable
    /\ responses = <<>>
    /\ pc = "collecting"
    /\ pre = EmptyTable
    /\ validResponses = <<>>
    /\ qualifiedForConsensus = <<>>
    /\ slashed = <<>>
    /\ result = NoResult
    /\ proc = [w \in Procs |-> IdleProc]
    /\ done = [p \in Peers |-> 0]
    /\ wmIn = <<>>
    /\ wmOut = WmPending
    /\ history = <<>>

\* the caller appends one enriched submission {peerId, price, balance} to the
\* array it will hand to processOracleConsensus
Submit(sub) ==
    /\ pc = "collecting"
    /\ Len(responses) < MaxResponses
    /\ responses' = Append(responses, sub)
    /\ UNCHANGED <<reputation, pc, pre, validResponses, qualifiedForConsensus,
                   slashed, result, concVars, wmVars, history>>

\* processOracleConsensus(responses), run to completion
ProcessRound ==
    /\ pc = "collecting"
    /\ LET r == processOracleConsensus(reputation, responses)
       IN  /\ reputation' = r.db
           /\ validResponses' = r.valid
           /\ qualifiedForConsensus' = r.qualified
           /\ slashed' = r.slashed
           /\ result' = r.result
    /\ pre' = reputation
    /\ pc' = "returned"
    /\ UNCHANGED <<responses, concVars, wmVars, history>>

\* the caller has consumed the outcome and starts a new array
NewRound ==
    /\ pc = "returned"
    /\ pc' = "collecting"
    /\ responses' = <<>>
    /\ pre' = EmptyTable
    /\ validResponses' = <<>>
    /\ qualifiedForConsensus' = <<>>
    /\ slashed' = <<>>
    /\ result' = NoResult
    /\ UNCHANGED <<reputation, concVars, wmVars, history>>

\* the exported getSlashingRecord(peerId), called between rounds
GetReputation(peerId) ==
    /\ pc = "collecting"
    /\ responses = <<>>
    /\ reputation' = getSlashingRecordDb(reputation, peerId)
    /\ UNCHANGED <<roundVars, concVars, wmVars, history>>

Next ==
    \/ \E sub \in Submissions : Submit(sub)
    \/ ProcessRound
    \/ NewRound
    \/ \E peerId \in Peers : GetReputation(peerId)

Spec == Init /\ [][Next]_vars

(***************************************************************************)
(* Concurrent specification: several processes (or worker threads), each   *)
(* with its own connection to peer_reputation.db, run rounds at the same   *)
(* time.  Every prepared statement is atomic and autocommitted; nothing    *)
(* groups the statements of recordSlashingOffense into a transaction, so   *)
(* the statements of different workers interleave freely.                  *)
(***************************************************************************)
RECURSIVE SumOver(_, _)
SumOver(f, S) ==
    IF S = {} THEN 0
    ELSE LET x == CHOOSE y \in S : TRUE IN f[x] + SumOver(f, S \ {x})

CallsStarted == Cardinality({w \in Procs : proc[w].pc # "idle"}) + SumOver(done, Peers)

\* Stage A of worker w's round reads peerId's record and keeps its response;
\* Stage B of that round then classifies the response as an outlier
ConcStageA(w, peerId) ==
    /\ proc[w].pc = "idle"
    /\ CallsStarted < MaxCalls
    /\ ~getSlashingRecord(reputation, peerId).blacklisted
    /\ reputation' = getSlashingRecordDb(reputation, peerId)
    /\ proc' = [proc EXCEPT ![w] = [pc |-> "stageB", peerId |-> peerId, record |-> NoRow]]
    /\ UNCHANGED <<done, roundVars, wmVars, history>>

\* recordSlashingOffense -> getSlashingRecord: row = stmtGet.get(peerId)
ConcSelect(w) ==
    /\ proc[w].pc = "stageB"
    /\ proc' = [proc EXCEPT ![w].pc = "selected",
                            ![w].record = stmtGet(reputation, proc[w].peerId)]
    /\ UNCHANGED <<reputation, done, roundVars, wmVars, history>>

\* getSlashingRecord: if (!row) { stmtInsert.run(peerId); row = {0, 0} }; return
ConcInsert(w) ==
    /\ proc[w].pc = "selected"
    /\ reputation' = IF proc[w].record = NoRow
                     THEN stmtInsert(reputation, proc[w].peerId) ELSE reputation
    /\ proc' = [proc EXCEPT ![w].pc = "read",
                            ![w].record = IF proc[w].record = NoRow
                                          THEN [offenses |-> 0, blacklisted |-> 0]
                                          ELSE proc[w].record]
    /\ UNCHANGED <<done, roundVars, wmVars, history>>

\* record.offenses += 1; threshold test; stmtUpdate.run(...)
ConcUpdate(w) ==
    /\ proc[w].pc = "read"
    /\ LET record == bumpRecord([offenses |-> proc[w].record.offenses,
                                 blacklisted |-> (proc[w].record.blacklisted = 1)])
       IN  reputation' = stmtUpdate(reputation, record.offenses,
                                    IF record.blacklisted THEN 1 ELSE 0, proc[w].peerId)
    /\ done' = [done EXCEPT ![proc[w].peerId] = @ + 1]
    /\ proc' = [proc EXCEPT ![w] = IdleProc]
    /\ UNCHANGED <<roundVars, wmVars, history>>

NextConc ==
    \/ \E w \in Procs, peerId \in Peers : ConcStageA(w, peerId)
    \/ \E w \in Procs : ConcSelect(w)
    \/ \E w \in Procs : ConcInsert(w)
    \/ \E w \in Procs : ConcUpdate(w)

SpecConc == Init /\ [][NextConc]_vars

(***************************************************************************)
(* Function specification of calculateWeightedMedian: the input is drawn   *)
(* from WmInputs, the action applies the function.                         *)
(***************************************************************************)
InitWM ==
    /\ reputation = EmptyTable
    /\ responses = <<>>
    /\ pc = "collecting"
    /\ pre = EmptyTable
    /\ validResponses = <<>>
    /\ qualifiedForConsensus = <<>>
    /\ slashed = <<>>
    /\ result = NoResult
    /\ proc = [w \in Procs |-> IdleProc]
    /\ done = [p \in Peers |-> 0]
    /\ wmIn \in WmInputs
    /\ wmOut = WmPending
    /\ history = <<>>

ApplyWeightedMedian ==
    /\ ~wmOut.done
    /\ wmOut' = [done |-> TRUE, price |-> calculateWeightedMedian(wmIn)]
    /\ UNCHANGED <<reputation, roundVars, concVars, wmIn, history>>

NextWM == ApplyWeightedMedian

SpecWM == InitWM /\ [][NextWM]_vars

(***************************************************************************)
(* Repeated rounds: the caller hands the same submissions to               *)
(* processOracleConsensus round after round (as the blacklist test does),  *)
(* starting from an empty table.  history keeps, for every round, the      *)
(* table before and after it and what the round computed.                  *)
(***************************************************************************)
InitRepeat ==
    /\ reputation = EmptyTable
    /\ responses \in RepeatInputs
    /\ pc = "collecting"
    /\ pre = EmptyTable
    /\ validResponses = <<>>
    /\ qualifiedForConsensus = <<>>
    /\ slashed = <<>>
    /\ result = NoResult
    /\ proc = [w \in Procs |-> IdleProc]
    /\ done = [p \in Peers |-> 0]
    /\ wmIn = <<>>
    /\ wmOut = WmPending
    /\ history = <<>>

\* processOracleConsensus(responses) once more, with the same array
RepeatRound ==
    /\ Len(history) < MaxRounds
    /\ LET r == processOracleConsensus(reputation, responses)
       IN  /\ reputation' = r.db
           /\ validResponses' = r.valid
           /\ qualifiedForConsensus' = r.qualified
           /\ slashed' = r.slashed
           /\ result' = r.result
           /\ history' = Append(history,
                                [pre |-> reputation, post |-> r.db, valid |-> r.valid,
                                 qualified |-> r.qualified, slashed |-> r.slashed,
                                 result |-> r.result])
    /\ pre' = reputation
    /\ pc' = "returned"
    /\ UNCHANGED <<responses, concVars, wmVars>>

NextRepeat == RepeatRound

SpecRepeat == InitRepeat /\ [][NextRepeat]_vars

(***************************************************************************)
(* Vocabulary of the properties, defined without the code's operators      *)
(***************************************************************************)
\* offenseCount / blacklisted of a peer; an unseen peer has the default (0, false)
OffenseCount(db, p) == IF p \in DOMAIN db THEN db[p].offenses ELSE 0
IsBlacklisted(db, p) == p \in DOMAIN db /\ db[p].blacklisted = 1

Returned == pc = "returned"

\* the subsequence of s at the indices in keep
RECURSIVE Pick(_, _, _)
Pick(s, keep, i) ==
    IF i > Len(s) THEN <<>>
    ELSE IF i \in keep THEN <<s[i]>> \o Pick(s, keep, i + 1)
    ELSE Pick(s, keep, i + 1)

PricesOf(s) == [i \in 1..Len(s) |-> s[i].price]
PeersOf(s) == [i \in 1..Len(s) |-> s[i].peerId]

\* k-th smallest of a non-empty sequence of numbers, by counting
Kth(ps, k) ==
    CHOOSE v \in {ps[i] : i \in 1..Len(ps)} :
        /\ Cardinality({i \in 1..Len(ps) : ps[i] < v}) < k
        /\ Cardinality({i \in 1..Len(ps) : ps[i] <= v}) >= k

\* twice the classical median of a non-empty sequence
Median2(ps) ==
    IF Len(ps) % 2 = 1 THEN 2 * Kth(ps, (Len(ps) + 1) \div 2)
    ELSE Kth(ps, Len(ps) \div 2) + Kth(ps, Len(ps) \div 2 + 1)

\* n^2 times the population variance: n * sum(p^2) - (sum p)^2
VarianceN2(ps) ==
    Len(ps) * SeqSum([i \in 1..Len(ps) |-> ps[i] * ps[i]]) - SeqSum(ps) * SeqSum(ps)

\* |price - median| > 2 * stdDev with stdDev > 0, over the price list ps
FarFromMedian(price, ps) ==
    /\ VarianceN2(ps) > 0
    /\ (2 * price - Median2(ps)) * (2 * price - Median2(ps)) * Len(ps) * Len(ps)
          > 16 * VarianceN2(ps)

\* indices of the valid responses that lie far from the median
OutlierIdx(valid) == {i \in 1..Len(valid) : FarFromMedian(valid[i].price, PricesOf(valid))}

(***************************************************************************)
(* C1: in a round that starts with peer p blacklisted, every submission of *)
(* p is dropped in Stage A whatever its price and balance: p is in neither *)
(* the valid nor the qualified set, and the round's outcome (finalPrice,   *)
(* participants, totalWeight or error) is the outcome of the same round    *)
(* with p's submissions removed.                                           *)
(***************************************************************************)
WithoutPeer(s, p) == Pick(s, {i \in 1..Len(s) : s[i].peerId # p}, 1)

C1_BlacklistedDropped ==
    Returned =>
        \A p \in Peers :
            IsBlacklisted(pre, p) =>
                /\ \A i \in 1..Len(validResponses) : validResponses[i].peerId # p
                /\ \A i \in 1..Len(qualifiedForConsensus) :
                       qualifiedForConsensus[i].peerId # p
                /\ result.participants
                       = Len(WithoutPeer(qualifiedForConsensus, p))
                /\ processOracleConsensus(pre, WithoutPeer(responses, p)).result = result

\* a blacklisted peer resubmits a staked price equal to the consensus price
C1_Witness ==
    /\ Returned
    /\ result.kind = "ok"
    /\ \E i \in 1..Len(responses) :
           /\ IsBlacklisted(pre, responses[i].peerId)
           /\ responses[i].balance >= MINIMUM_STAKE_THRESHOLD
           /\ responses[i].price = result.finalPrice

(***************************************************************************)
(* C2: in every state of the store, for every row, blacklisted is set if   *)
(* and only if offenses >= SLASHING_THRESHOLD.                             *)
(***************************************************************************)
C2_BlacklistedIffThreshold ==
    \A p \in DOMAIN reputation :
        (reputation[p].blacklisted = 1) <=> (reputation[p].offenses >= SLASHING_THRESHOLD)

\* one peer has just reached the threshold, another is one offense short
C2_Witness ==
    /\ \E p \in DOMAIN reputation :
           reputation[p].offenses = SLASHING_THRESHOLD /\ reputation[p].blacklisted = 1
    /\ \E p \in DOMAIN reputation :
           reputation[p].offenses = SLASHING_THRESHOLD - 1 /\ reputation[p].blacklisted = 0

(***************************************************************************)
(* C3: no step deletes a row, decreases a row's offenses or clears a       *)
(* row's blacklisted flag.                                                 *)
(***************************************************************************)
C3_Monotone ==
    [][\A p \in DOMAIN reputation :
           /\ p \in DOMAIN reputation'
           /\ reputation'[p].offenses >= reputation[p].offenses
           /\ (reputation[p].blacklisted = 1 => reputation'[p].blacklisted = 1)]_vars

\* a round in which a blacklisted peer and a peer with offenses both submitted
C3_Witness ==
    /\ Returned
    /\ \E i \in 1..Len(responses) : IsBlacklisted(pre, responses[i].peerId)
    /\ \E i \in 1..Len(responses) :
           /\ ~IsBlacklisted(pre, responses[i].peerId)
           /\ OffenseCount(pre, responses[i].peerId) > 0
    /\ Len(slashed) > 0

(***************************************************************************)
(* C4: after a round, returned or failed, every peer's offenseCount is its *)
(* offenseCount before the round plus the number of its valid responses    *)
(* that lie more than 2 standard deviations from the median; a peer with   *)
(* no such response keeps its offenseCount and blacklisted values.         *)
(***************************************************************************)
OutliersOf(p) == {i \in OutlierIdx(validResponses) : validResponses[i].peerId = p}

C4_OffensePerOutlier ==
    Returned =>
        \A p \in Peers :
            /\ OffenseCount(reputation, p)
                   = OffenseCount(pre, p) + Cardinality(OutliersOf(p))
            /\ OutliersOf(p) = {} =>
                   IsBlacklisted(reputation, p) = IsBlacklisted(pre, p)

\* one peer is slashed while the other, dropped in Stage A, keeps its record
C4_Witness ==
    /\ Returned
    /\ \E p \in Peers, q \in Peers :
           /\ OffenseCount(reputation, p) = OffenseCount(pre, p) + 1
           /\ \E i \in 1..Len(responses) : responses[i].peerId = q
           /\ \A i \in 1..Len(validResponses) : validResponses[i].peerId # q
           /\ OffenseCount(reputation, q) = OffenseCount(pre, q)

(***************************************************************************)
(* C5: with the median and the population standard deviation taken over   *)
(* the prices of all valid responses, the qualified set is the valid set   *)
(* without exactly the responses with |price - median| > 2 * stdDev and    *)
(* stdDev > 0, each of which is slashed; with stdDev = 0 none is excluded. *)
(* Prices {99,100,100,101,500} exclude exactly the 500 response; a         *)
(* response exactly 2 standard deviations from the median is kept.         *)
(***************************************************************************)
OutlierExample ==
    <<[peerId |-> "peer_1", price |-> 100, balance |-> 400],
      [peerId |-> "peer_2", price |-> 101, balance |-> 400],
      [peerId |-> "peer_3", price |-> 100, balance |-> 400],
      [peerId |-> "peer_4", price |-> 99, balance |-> 400],
      [peerId |-> "malicious", price |-> 500, balance |-> 400]>>

\* price 5 lies at exactly 2 standard deviations (stdDev 1.5) from the median 2
BoundaryExample ==
    <<[peerId |-> "peer_1", price |-> 1, balance |-> 400],
      [peerId |-> "peer_2", price |-> 2, balance |-> 400],
      [peerId |-> "peer_3", price |-> 2, balance |-> 400],
      [peerId |-> "peer_4", price |-> 5, balance |-> 400]>>

C5_OutlierFilter ==
    /\ Returned /\ Len(validResponses) > 0 =>
           /\ qualifiedForConsensus
                  = Pick(validResponses,
                         (1..Len(validResponses)) \ OutlierIdx(validResponses), 1)
           /\ slashed = PeersOf(Pick(validResponses, OutlierIdx(validResponses), 1))
           /\ VarianceN2(PricesOf(validResponses)) = 0 =>
                  qualifiedForConsensus = validResponses
    /\ LET r == processOracleConsensus(EmptyTable, OutlierExample)
       IN  /\ r.result.kind = "ok"
           /\ r.result.participants = 4
           /\ r.result.finalPrice = 100
           /\ PricesOf(r.qualified) = <<100, 101, 100, 99>>
           /\ OffenseCount(r.db, "malicious") = 1
    /\ LET r == processOracleConsensus(EmptyTable, BoundaryExample)
       IN  r.result.participants = 4 /\ r.slashed = <<>>

\* a round that excludes one response and keeps another while stdDev > 0
C5_Witness ==
    /\ Returned
    /\ Len(qualifiedForConsensus) > 0
    /\ Len(qualifiedForConsensus) < Len(validResponses)
    /\ Len(slashed) = Len(validResponses) - Len(qualifiedForConsensus)

(***************************************************************************)
(* C6: the valid set is exactly the submissions, in order, whose peer is   *)
(* not blacklisted when the round starts and whose balance is at least     *)
(* MINIMUM_STAKE_THRESHOLD, each with weight sqrt(balance); the round      *)
(* fails with NoQualifiedResponses if and only if that set is empty.       *)
(***************************************************************************)
StakedIdx ==
    {i \in 1..Len(responses) :
        /\ ~IsBlacklisted(pre, responses[i].peerId)
        /\ responses[i].balance >= MINIMUM_STAKE_THRESHOLD}

Unweighted(s) ==
    [i \in 1..Len(s) |->
        [peerId |-> s[i].peerId, price |-> s[i].price, balance |-> s[i].balance]]

C6_ValidSet ==
    Returned =>
        /\ Unweighted(validResponses) = Pick(responses, StakedIdx, 1)
        /\ \A i \in 1..Len(validResponses) :
               validResponses[i].weight * validResponses[i].weight
                   = validResponses[i].balance
        /\ (result.kind = "NoQualifiedResponses") <=> (StakedIdx = {})

\* the single under-staked submission of the scenario
C6_Witness ==
    /\ Returned
    /\ Len(responses) = 1
    /\ responses[1].balance = 50
    /\ result.kind = "NoQualifiedResponses"

(***************************************************************************)
(* C7 as stated: a round that fails with NoQualifiedResponses leaves the   *)
(* table, its set of rows included, exactly as it was.                     *)
(***************************************************************************)
C7_StoreIdentical ==
    Returned /\ result.kind = "NoQualifiedResponses" => reputation = pre

(***************************************************************************)
(* C7 amended: a round that fails with NoQualifiedResponses changes no     *)
(* existing row and records no offense; the only rows it adds are default  *)
(* (0, false) rows for submitting peers that had no row yet.               *)
(***************************************************************************)
C7_OnlyDefaultRowsAdded ==
    Returned /\ result.kind = "NoQualifiedResponses" =>
        /\ \A p \in DOMAIN pre : p \in DOMAIN reputation /\ reputation[p] = pre[p]
        /\ \A p \in DOMAIN reputation \ DOMAIN pre :
               /\ reputation[p] = [offenses |-> 0, blacklisted |-> 0]
               /\ \E i \in 1..Len(responses) : responses[i].peerId = p
        /\ \A i \in 1..Len(responses) : responses[i].peerId \in DOMAIN reputation
        /\ slashed = <<>>

\* a failed round with a blacklisted submitter and a first-seen submitter
C7_Witness ==
    /\ Returned
    /\ result.kind = "NoQualifiedResponses"
    /\ DOMAIN reputation # DOMAIN pre
    /\ \E i \in 1..Len(responses) : IsBlacklisted(pre, responses[i].peerId)

(***************************************************************************)
(* C8: recordSlashingOffense calls of concurrently running rounds on the   *)
(* same table are serialized, so none is lost: whenever no call is in      *)
(* flight, every peer's offenseCount is the number of completed calls for  *)
(* it, and blacklisted <=> offenseCount >= SLASHING_THRESHOLD.             *)
(***************************************************************************)
C8_NoLostUpdate ==
    (\A w \in Procs : proc[w].pc = "idle") =>
        \A p \in Peers :
            /\ OffenseCount(reputation, p) = done[p]
            /\ IsBlacklisted(reputation, p) <=> (done[p] >= SLASHING_THRESHOLD)

(***************************************************************************)
(* C9: for a non-empty list with non-negative weights and positive total   *)
(* weight, calculateWeightedMedian returns the lowest price P such that    *)
(* the weight of the responses priced at most P is at least half the total *)
(* weight (the lower price when that weight is exactly half), and the scan *)
(* always finds it: the fallback return is not reached.                    *)
(* (100,w10),(110,w20),(120,w50),(130,w30) gives 120.                      *)
(***************************************************************************)
WeightUpTo(s, price) ==
    SeqSum([i \in 1..Len(s) |-> IF s[i].price <= price THEN s[i].weight ELSE 0])

TotalWeight(s) == SeqSum([i \in 1..Len(s) |-> s[i].weight])

ReachesHalf(s, price) == 2 * WeightUpTo(s, price) >= TotalWeight(s)

WeightedExample ==
    <<[price |-> 100, weight |-> 10], [price |-> 110, weight |-> 20],
      [price |-> 120, weight |-> 50], [price |-> 130, weight |-> 30]>>

C9_FirstToReachHalf ==
    /\ wmOut.done /\ Len(wmIn) > 0 /\ TotalWeight(wmIn) > 0 =>
           /\ ReachesHalf(wmIn, wmOut.price)
           /\ \E i \in 1..Len(wmIn) : wmIn[i].price = wmOut.price
           /\ \A i \in 1..Len(wmIn) :
                  wmIn[i].price < wmOut.price => ~ReachesHalf(wmIn, wmIn[i].price)
           /\ wmScan(SortResponses(wmIn), 1, 0, TotalWeight(wmIn)) # 0
    /\ calculateWeightedMedian(WeightedExample) = 120

\* the cumulative weight lands exactly on half the total at the returned price,
\* and a higher price carries the other half
C9_Witness ==
    /\ wmOut.done
    /\ Len(wmIn) > 1
    /\ TotalWeight(wmIn) > 0
    /\ 2 * WeightUpTo(wmIn, wmOut.price) = TotalWeight(wmIn)
    /\ \E i \in 1..Len(wmIn) : wmIn[i].price > wmOut.price /\ wmIn[i].weight > 0

(***************************************************************************)
(* C10 as stated: with all weights equal and positive,                     *)
(* calculateWeightedMedian returns the classical median of the prices      *)
(* (computeMedian: the average of the two middle prices for even length).  *)
(***************************************************************************)
EqualPositiveWeights(s) ==
    /\ Len(s) > 0
    /\ \A i \in 1..Len(s) : s[i].weight > 0 /\ s[i].weight = s[1].weight

C10_ClassicalMedian ==
    wmOut.done /\ EqualPositiveWeights(wmIn) =>
        wmOut.price * computeMedian(PricesOf(wmIn))[2] = computeMedian(PricesOf(wmIn))[1]

(***************************************************************************)
(* C10 amended: with all weights equal and positive,                       *)
(* calculateWeightedMedian returns the classical median for odd length and *)
(* the lower of the two middle prices for even length (the classical       *)
(* median only when the two middle prices are equal).                      *)
(***************************************************************************)
C10_LowerMedian ==
    wmOut.done /\ EqualPositiveWeights(wmIn) =>
        /\ Len(wmIn) % 2 = 1 =>
               wmOut.price * computeMedian(PricesOf(wmIn))[2]
                   = computeMedian(PricesOf(wmIn))[1]
        /\ Len(wmIn) % 2 = 0 =>
               /\ wmOut.price = Kth(PricesOf(wmIn), Len(wmIn) \div 2)
               /\ (2 * wmOut.price = Median2(PricesOf(wmIn)))
                      <=> (Kth(PricesOf(wmIn), Len(wmIn) \div 2)
                             = Kth(PricesOf(wmIn), Len(wmIn) \div 2 + 1))

\* an even-length list of equal weights whose two middle prices differ
C10_Witness ==
    /\ wmOut.done
    /\ EqualPositiveWeights(wmIn)
    /\ Len(wmIn) % 2 = 0
    /\ Kth(PricesOf(wmIn), Len(wmIn) \div 2) < Kth(PricesOf(wmIn), Len(wmIn) \div 2 + 1)
    /\ wmOut.price = Kth(PricesOf(wmIn), Len(wmIn) \div 2)

(***************************************************************************)
(* C11: calculateWeightedMedian returns 0 for the empty list and for every *)
(* non-empty list whose total weight is 0, whatever its prices.            *)
(***************************************************************************)
C11_ZeroWithoutWeight ==
    wmOut.done /\ (Len(wmIn) = 0 \/ TotalWeight(wmIn) = 0) => wmOut.price = 0

(***************************************************************************)
(* C14: calculateWeightedMedian returns the same price for every           *)
(* permutation of its input list, repeated prices with different weights   *)
(* included.                                                               *)
(***************************************************************************)
IndexPermutations(n) == {f \in [1..n -> 1..n] : \A i \in 1..n : \E j \in 1..n : f[j] = i}

Permuted(s, f) == [i \in 1..Len(s) |-> s[f[i]]]

C14_PermutationInvariant ==
    wmOut.done =>
        \A f \in IndexPermutations(Len(wmIn)) :
            calculateWeightedMedian(Permuted(wmIn, f)) = wmOut.price

\* an unsorted list in which one price occurs with two different weights
C14_Witness ==
    /\ wmOut.done
    /\ \E i, j \in 1..Len(wmIn) :
           /\ i < j
           /\ wmIn[i].price > wmIn[j].price
    /\ \E i, j \in 1..Len(wmIn) :
           /\ wmIn[i].price = wmIn[j].price
           /\ wmIn[i].weight # wmIn[j].weight
    /\ wmOut.price # wmIn[1].price

(***************************************************************************)
(* C12: when a round returns a result, the qualified responses are a       *)
(* sub-list of the valid responses, which are a sub-list of the            *)
(* submissions; participants is the number of qualified responses (at      *)
(* least 1, at most the number of submissions); totalWeight is the sum of  *)
(* sqrt(balance) over the qualified responses; finalPrice is the price of  *)
(* a qualified response.                                                   *)
(***************************************************************************)
\* a is b with some elements left out (order kept)
RECURSIVE IsSubSeq(_, _)
IsSubSeq(a, b) ==
    IF a = <<>> THEN TRUE
    ELSE IF b = <<>> THEN FALSE
    ELSE IF Head(a) = Head(b) THEN IsSubSeq(Tail(a), Tail(b))
    ELSE IsSubSeq(a, Tail(b))

\* the exact square root of a perfect square
RootOf(b) == CHOOSE r \in 0..b : r * r = b

C12_ResultFromQualified ==
    Returned /\ result.kind = "ok" =>
        /\ IsSubSeq(qualifiedForConsensus, validResponses)
        /\ IsSubSeq(Unweighted(validResponses), responses)
        /\ result.participants = Len(qualifiedForConsensus)
        /\ result.participants >= 1
        /\ result.participants <= Len(responses)
        /\ result.totalWeight
               = SeqSum([i \in 1..Len(qualifiedForConsensus) |->
                            RootOf(qualifiedForConsensus[i].balance)])
        /\ \E i \in 1..Len(qualifiedForConsensus) :
               qualifiedForConsensus[i].price = result.finalPrice

\* a result computed after both Stage A and Stage B dropped a submission
C12_Witness ==
    /\ Returned
    /\ result.kind = "ok"
    /\ Len(qualifiedForConsensus) < Len(validResponses)
    /\ Len(validResponses) < Len(responses)

(***************************************************************************)
(* C13: progressive punishment.  With the same submissions handed in round *)
(* after round from an empty table, a peer that submits once per round and *)
(* is slashed in each of the first rounds has offenseCount 1 and 2, not    *)
(* blacklisted, after rounds 1 and 2, and offenseCount 3, blacklisted,     *)
(* after round 3; round 4 drops it in Stage A, leaves its offenseCount at  *)
(* 3 and counts only the other peers (participants = 3 for three peers at  *)
(* one price against the outlier).                                         *)
(***************************************************************************)
TimesSubmitting(p) == Cardinality({i \in 1..Len(responses) : responses[i].peerId = p})

SlashedIn(k, p) == \E i \in 1..Len(history[k].slashed) : history[k].slashed[i] = p

SlashedWhileAllowed(p) ==
    \A k \in 1..Len(history) : k <= SLASHING_THRESHOLD => SlashedIn(k, p)

OthersAgree(p) ==
    \A i, j \in 1..Len(responses) :
        responses[i].peerId # p /\ responses[j].peerId # p
            => responses[i].price = responses[j].price

\* the test's scenario with the outlier price scaled from 9999 to 1000
BlacklistScenario ==
    <<[peerId |-> "peer_a", price |-> 100, balance |-> 400],
      [peerId |-> "peer_b", price |-> 100, balance |-> 400],
      [peerId |-> "peer_c", price |-> 100, balance |-> 400],
      [peerId |-> "bad_actor", price |-> 1000, balance |-> 10000]>>

C13_ProgressivePunishment ==
    /\ \A p \in Peers :
           TimesSubmitting(p) = 1 /\ SlashedWhileAllowed(p) =>
               /\ \A k \in 1..Len(history) :
                      k < SLASHING_THRESHOLD =>
                          history[k].post[p] = [offenses |-> k, blacklisted |-> 0]
               /\ Len(history) >= SLASHING_THRESHOLD =>
                      history[SLASHING_THRESHOLD].post[p]
                          = [offenses |-> SLASHING_THRESHOLD, blacklisted |-> 1]
               /\ Len(history) > SLASHING_THRESHOLD =>
                      LET r == history[SLASHING_THRESHOLD + 1]
                      IN  /\ \A i \in 1..Len(r.valid) : r.valid[i].peerId # p
                          /\ ~SlashedIn(SLASHING_THRESHOLD + 1, p)
                          /\ r.post[p] = [offenses |-> SLASHING_THRESHOLD, blacklisted |-> 1]
                          /\ OthersAgree(p) =>
                                 /\ r.result.kind = "ok"
                                 /\ r.result.participants = Len(responses) - 1
    /\ LET r1 == processOracleConsensus(EmptyTable, BlacklistScenario)
           r2 == processOracleConsensus(r1.db, BlacklistScenario)
           r3 == processOracleConsensus(r2.db, BlacklistScenario)
           r4 == processOracleConsensus(r3.db, BlacklistScenario)
       IN  /\ r1.db["bad_actor"] = [offenses |-> 1, blacklisted |-> 0]
           /\ r2.db["bad_actor"] = [offenses |-> 2, blacklisted |-> 0]
           /\ r3.db["bad_actor"] = [offenses |-> 3, blacklisted |-> 1]
           /\ r4.db["bad_actor"] = [offenses |-> 3, blacklisted |-> 1]
           /\ r4.result.participants = 3
           /\ Len(r4.valid) = 3

\* the fourth round of three agreeing submissions against one outlier
C13_Witness ==
    /\ Len(history) = SLASHING_THRESHOLD + 1
    /\ Len(responses) = 4
    /\ result.participants = 3
    /\ \E p \in Peers :
           /\ TimesSubmitting(p) = 1
           /\ SlashedWhileAllowed(p)
           /\ OthersAgree(p)
           /\ IsBlacklisted(pre, p)
           /\ OffenseCount(reputation, p) = SLASHING_THRESHOLD

(***************************************************************************)
(* C15: the NoResponsesPassedOutlierFilter error cannot occur.  Whenever   *)
(* Stage A keeps at least one response, some valid response lies within    *)
(* two standard deviations of the median, so Stage B keeps it and the      *)
(* round returns a result with at least one participant.                   *)
(***************************************************************************)
C15_FilterNeverEmpty ==
    /\ result.kind # "NoResponsesPassedOutlierFilter"
    /\ Len(validResponses) > 0 =>
           /\ result.kind = "ok"
           /\ Len(qualifiedForConsensus) >= 1
           /\ \E i \in 1..Len(validResponses) :
                  ~FarFromMedian(validResponses[i].price, PricesOf(validResponses))

\* a round in which Stage B removed outliers and still kept a response
C15_Witness ==
    /\ Len(history) >= 1
    /\ Len(slashed) >= 2
    /\ Len(qualifiedForConsensus) >= 1
    /\ result.kind = "ok"

(***************************************************************************)
(* C16: no offense is recorded for a peer that is already blacklisted, and *)
(* so offenseCount never exceeds SLASHING_THRESHOLD in any reachable       *)
(* state, for any sequence of rounds, including rounds in which the same   *)
(* peerId appears in more than one submission.                             *)
(***************************************************************************)
C16_NeverExceeds ==
    \A p \in Peers : OffenseCount(reputation, p) <= SLASHING_THRESHOLD

\* What does hold: Stage B slashes only peers that were not blacklisted at
\* round start, and a peer that submits at most once per round stays within
\* the threshold.
C16_HoldsWithoutDuplicates ==
    /\ \A k \in 1..Len(history) : \A p \in Peers :
           SlashedIn(k, p) => ~IsBlacklisted(history[k].pre, p)
    /\ \A p \in Peers :
           TimesSubmitting(p) <= 1 => OffenseCount(reputation, p) <= SLASHING_THRESHOLD

(***************************************************************************)
(* C17: submissions rejected in Stage A do not influence a round.  With S' *)
(* the submissions of S whose peer is not blacklisted at round start and   *)
(* whose balance is at least MINIMUM_STAKE_THRESHOLD, a round on S and a   *)
(* round on S' from the same table give the same outcome (finalPrice,      *)
(* participants and totalWeight, or the same error) and the same           *)
(* offenseCount and blacklisted value for every peer.                      *)
(***************************************************************************)
WithoutRejected == Pick(responses, StakedIdx, 1)

C17_RejectedHaveNoInfluence ==
    Returned =>
        LET r == processOracleConsensus(pre, WithoutRejected)
        IN  /\ r.result = result
            /\ r.slashed = slashed
            /\ \A p \in Peers :
                   /\ OffenseCount(r.db, p) = OffenseCount(reputation, p)
                   /\ IsBlacklisted(r.db, p) = IsBlacklisted(reputation, p)

\* a round with an outlier in which Stage A rejected one submission for its
\* stake and another for its blacklisted peer
C17_Witness ==
    /\ Returned
    /\ result.kind = "ok"
    /\ Len(slashed) >= 1
    /\ \E i \in 1..Len(responses) : responses[i].balance < MINIMUM_STAKE_THRESHOLD
    /\ \E i \in 1..Len(responses) : IsBlacklisted(pre, responses[i].peerId)

(***************************************************************************)
(* C18: a round whose valid set has at most two responses classifies no    *)
(* response as an outlier and records no offense.  With one response the   *)
(* standard deviation is 0; with two, the standard deviation is 0 or every *)
(* zScore is exactly 1.  Slashing needs at least three valid responses.    *)
(***************************************************************************)
\* zScore = 1, on squares: |price - median|^2 = stdDev^2
zScoreIsOne(price, medianPrice, stdDevSq) ==
    LET diffNum == Abs(price * medianPrice[2] - medianPrice[1])
    IN  diffNum * diffNum * stdDevSq[2] = stdDevSq[1] * medianPrice[2] * medianPrice[2]

C18_NoSlashingBelowThree ==
    Returned =>
        LET prices == PricesOf(validResponses)
            medianPrice == computeMedian(prices)
            stdDevSq == computeStandardDeviation(prices, computeMean(prices))
        IN  /\ Len(validResponses) = 1 => stdDevSq[1] = 0
            /\ Len(validResponses) = 2 =>
                   \/ stdDevSq[1] = 0
                   \/ \A i \in 1..2 : zScoreIsOne(prices[i], medianPrice, stdDevSq)
            /\ Len(validResponses) <= 2 =>
                   /\ slashed = <<>>
                   /\ qualifiedForConsensus = validResponses
                   /\ \A p \in Peers :
                          /\ OffenseCount(reputation, p) = OffenseCount(pre, p)
                          /\ IsBlacklisted(reputation, p) = IsBlacklisted(pre, p)
            /\ Len(slashed) > 0 => Len(validResponses) >= 3

\* a round on two valid responses at different prices, both kept
C18_Witness ==
    /\ Returned
    /\ Len(validResponses) = 2
    /\ validResponses[1].price # validResponses[2].price
    /\ result.kind = "ok"
    /\ result.participants = 2

====
